---- MODULE Spec2Model ----
(***************************************************************************)
(* A model of VSyncReactor (services/surfaceflinger/Scheduler/             *)
(* VSyncReactor.cpp): the present-fence backlog, the period-transition     *)
(* state machine, the listener registry and the CallbackRepeater adapter.  *)
(* The VSyncTracker, the VSyncDispatch registration, the Clock and the     *)
(* FenceTime objects are collaborators, modelled at their interface.       *)
(***************************************************************************)
EXTENDS Integers, Sequences, FiniteSets, TLC

\* ------------------------------------------------------------------ bounds
MaxFences == 3          \* fence objects the caller may hand in
MaxPendingLimit == 2    \* largest pendingFenceLimit given to the constructor
MaxTime == 3            \* resync sample timestamps are 0..MaxTime
MaxListenerIds == 4     \* distinct DispSync::Callback identities

\* ------------------------------------------------------- program constants
maxListeners == 3
SIGNAL_TIME_INVALID == -1
SIGNAL_TIME_PENDING == 2147483647

Fences == 1..MaxFences
NullFence == 0
FenceTimes == {1, 2}            \* signal times of settled fences
Times == 0..MaxTime
Nows == {0, 1}                  \* clock readings and vsync times
Phases == {0, 1}                \* phase offsets
Periods == {1, 3}               \* vsync periods
Listeners == 1..MaxListenerIds
PeriodListeners == {1, 2}       \* the identities used where the period changes
FiringListeners == {1}          \* the identities used where listeners fire

VARIABLES
    mPendingLimit,           \* size_t const mPendingLimit
    fenceTime,               \* what getCachedSignalTime() answers, per fence
    mUnfiredFences,          \* std::vector<std::shared_ptr<FenceTime>>
    mIgnorePresentFences,    \* bool
    mMoreSamplesNeeded,      \* bool
    mPeriodTransitioningTo,  \* std::optional<nsecs_t>: <<>> or <<p>>
    mLastHwVsync,            \* std::optional<nsecs_t>: <<>> or <<t>>
    trackerPeriod,           \* what mTracker->currentPeriod() answers
    mCallbacks,              \* map Callback* -> CallbackRepeater
    aborted,                 \* LOG_ALWAYS_FATAL has fired
    lastCall                 \* the last operation: arguments, result, effects

vars == <<mPendingLimit, fenceTime, mUnfiredFences, mIgnorePresentFences,
          mMoreSamplesNeeded, mPeriodTransitioningTo, mLastHwVsync,
          trackerPeriod, mCallbacks, aborted, lastCall>>

fenceVars == <<mUnfiredFences, mIgnorePresentFences>>
transitionVars == <<mMoreSamplesNeeded, mPeriodTransitioningTo, mLastHwVsync>>

\* ---------------------------------------------------------------- helpers
Abs(x) == IF x < 0 THEN -x ELSE x

\* a bool result, as recorded in lastCall
Bool(b) == IF b THEN "true" ELSE "false"

\* std::optional
HasValue(o) == Len(o) = 1
Value(o) == o[1]

\* One record shape for every operation, so that records always compare:
\* the operation, its arguments, what it found on entry (pre: the backlog
\* length for the fence operations, the registry size for addEventListener,
\* 1 for a setPeriod that found a transition in flight, 1 for an
\* addResyncSample that found no anchor sample, else 0), its result,
\* *periodFlushed, and the calls it made on the tracker, in order.
\* now is the clock reading the operation took (line 255), 0 if it took none.
CallAt(op, arg, arg2, pre, ret, flushed, tracker, now) ==
    [op |-> op, arg |-> arg, arg2 |-> arg2, pre |-> pre, ret |-> ret,
     flushed |-> flushed, tracker |-> tracker, now |-> now]

Call(op, arg, arg2, pre, ret, flushed, tracker) ==
    CallAt(op, arg, arg2, pre, ret, flushed, tracker, 0)

\* calls received by the tracker
TrackerAdd(t) == [call |-> "addVsyncTimestamp", v |-> t]
TrackerSet(p) == [call |-> "setPeriod", v |-> p]

\* ----------------------------------------------------- the fence backlog
\* mutation of DrainKeep: a forwarded fence is not erased
DrainKeepForwarded(q, ft) ==
    LET Stays(f) == ft[f] # SIGNAL_TIME_INVALID IN SelectSeq(q, Stays)

\* the loop of addPresentFence: the fences that stay in the backlog
DrainKeep(q, ft) ==
    LET Stays(f) == ft[f] = SIGNAL_TIME_PENDING IN SelectSeq(q, Stays)

\* mutation of DrainForward: an INVALID time is handed on like a timestamp
RECURSIVE DrainForwardInvalidToo(_, _)
DrainForwardInvalidToo(q, ft) ==
    IF q = <<>> THEN <<>>
    ELSE LET time == ft[Head(q)] IN
         IF time = SIGNAL_TIME_PENDING
         THEN DrainForwardInvalidToo(Tail(q), ft)
         ELSE <<TrackerAdd(time)>> \o DrainForwardInvalidToo(Tail(q), ft)

\* the loop of addPresentFence: the timestamps it hands to the tracker
RECURSIVE DrainForward(_, _)
DrainForward(q, ft) ==
    IF q = <<>> THEN <<>>
    ELSE LET time == ft[Head(q)] IN
         IF time = SIGNAL_TIME_PENDING \/ time = SIGNAL_TIME_INVALID
         THEN DrainForward(Tail(q), ft)
         ELSE <<TrackerAdd(time)>> \o DrainForward(Tail(q), ft)

\* mutations of PushPending: no eviction; eviction from the tail
PushNoEvict(q, f, limit) == Append(q, f)

PushEvictNewest(q, f, limit) ==
    IF limit = Len(q) THEN Append(SubSeq(q, 1, Len(q) - 1), f) ELSE Append(q, f)

\* a pending fence enters the backlog, the oldest leaving it at the limit

PushPending(q, f, limit) ==
    IF limit = Len(q) THEN Append(Tail(q), f) ELSE Append(q, f)

\* mutation of IgnoreClear: the backlog is never cleared
IgnoreKeeps(q, ignoration) == q

\* setIgnorePresentFences: the backlog afterwards

IgnoreClear(q, ignoration) == IF ignoration = TRUE THEN <<>> ELSE q

\* ------------------------------------------------- the period transition
\* the three transition fields, as one record
Transition(to, hw, more) == [to |-> to, hw |-> hw, more |-> more]

startPeriodTransition(t, newPeriod) ==
    [t EXCEPT !.to = <<newPeriod>>, !.more = TRUE]

\* mutation of endPeriodTransition: the anchor sample is kept
EndKeepsAnchor(t) == [t EXCEPT !.to = <<>>, !.more = FALSE]

endPeriodTransition(t) ==
    [t EXCEPT !.to = <<>>, !.hw = <<>>, !.more = FALSE]

\* mutation of SetPeriodTransition: the period is not compared with getPeriod()
SetPeriodAlwaysStarts(t, period, cur) ==
    startPeriodTransition([t EXCEPT !.hw = <<>>], period)

\* mutation of SetPeriodTransition: the anchor sample survives setPeriod
SetPeriodKeepsAnchor(t, period, cur) ==
    IF period = cur THEN endPeriodTransition(t)
    ELSE startPeriodTransition(t, period)

\* VSyncReactor::setPeriod on the transition fields; cur is getPeriod()

SetPeriodTransition(t, period, cur) ==
    LET t1 == [t EXCEPT !.hw = <<>>] IN
    IF period = cur THEN endPeriodTransition(t1)
    ELSE startPeriodTransition(t1, period)

\* mutation of periodChangeDetected: a tie commits
PeriodChangeNotStrict(vsync_timestamp, lastHw, transitioningTo, period) ==
    IF ~HasValue(lastHw) \/ ~HasValue(transitioningTo) THEN FALSE
    ELSE LET distance == vsync_timestamp - Value(lastHw) IN
         Abs(distance - Value(transitioningTo)) <= Abs(distance - period)

\* does the new period explain the interval since the anchor strictly better
periodChangeDetected(vsync_timestamp, lastHw, transitioningTo, period) ==
    IF ~HasValue(lastHw) \/ ~HasValue(transitioningTo) THEN FALSE
    ELSE LET distance == vsync_timestamp - Value(lastHw) IN
         Abs(distance - Value(transitioningTo)) < Abs(distance - period)

\* ------------------------------------------------------ CallbackRepeater
\* mutation of calculateWorkload: the offset is added
WorkloadSum(period, offset) == period + offset

calculateWorkload(period, offset) == period - offset

\* a VSyncCallbackRegistration holds at most one scheduled wakeup
Scheduled(workload, earliestVsync) ==
    <<[workload |-> workload, earliestVsync |-> earliestVsync]>>

NewRepeater(period, offset, notBefore) ==
    [mStopped |-> FALSE, mPeriod |-> period, mOffset |-> offset,
     mLastCallTime |-> notBefore, scheduled |-> <<>>,
     pc |-> "idle", vsynctime |-> 0, wakeupTime |-> 0]

RepeaterStart(r, offset) ==
    [r EXCEPT !.mStopped = FALSE, !.mOffset = offset,
              !.scheduled = Scheduled(calculateWorkload(r.mPeriod, offset),
                                      r.mLastCallTime)]

\* mutation of RepeaterSetPeriod: the scheduled wakeup follows the new period
RepeaterSetPeriodReschedules(r, period) ==
    IF period = r.mPeriod THEN r
    ELSE [r EXCEPT !.mPeriod = period,
                   !.scheduled = IF HasValue(r.scheduled)
                                 THEN Scheduled(calculateWorkload(period, r.mOffset),
                                                Value(r.scheduled).earliestVsync)
                                 ELSE <<>>]

RepeaterSetPeriod(r, period) ==
    IF period = r.mPeriod THEN r ELSE [r EXCEPT !.mPeriod = period]

\* mutation of RepeaterStop: the registration is not cancelled
RepeaterStopNoCancel(r) == [r EXCEPT !.mStopped = TRUE]

RepeaterStop(r) == [r EXCEPT !.mStopped = TRUE, !.scheduled = <<>>]

\* ------------------------------------------------------------------ Init
\* The state after construction. pendingFenceLimit is the constructor's
\* argument, taken to be at least 1: with 0 the eviction would erase begin()
\* of an empty vector, which C++ leaves undefined.
Init ==
    /\ mPendingLimit \in 1..MaxPendingLimit
    /\ fenceTime = [f \in Fences |-> SIGNAL_TIME_PENDING]
    /\ mUnfiredFences = <<>>
    /\ mIgnorePresentFences = FALSE
    /\ mMoreSamplesNeeded = FALSE
    /\ mPeriodTransitioningTo = <<>>
    /\ mLastHwVsync = <<>>
    /\ trackerPeriod \in Periods
    /\ mCallbacks = <<>>
    /\ aborted = FALSE
    /\ lastCall = Call("init", 0, 0, 0, "void", FALSE, <<>>)

\* ----------------------------------------------------------- environment
\* A fence settles: from PENDING to a signal time, or to INVALID.
SignalFence(f, v) ==
    /\ ~aborted
    /\ fenceTime[f] = SIGNAL_TIME_PENDING
    /\ fenceTime' = [fenceTime EXCEPT ![f] = v]
    /\ lastCall' = Call("SignalFence", f, v, 0, "void", FALSE, <<>>)
    /\ UNCHANGED <<mPendingLimit, fenceVars, transitionVars, trackerPeriod,
                   mCallbacks, aborted>>

\* ------------------------------------------------------ fence operations
\* What line 125 may have read: the signal time is read before the lock is
\* taken, so a fence that has settled by the time the backlog is drained may
\* still have answered PENDING.
SignalTimeReads(fence) ==
    IF fence = NullFence THEN {SIGNAL_TIME_INVALID}
    ELSE {fenceTime[fence], SIGNAL_TIME_PENDING}

\* mutation of EarlyResult: "no more samples" while fences are ignored
EarlyResultFalseIfIgnored(signalTime, ignoring) ==
    IF ignoring THEN "false" ELSE "true"

\* what addPresentFence returns when it leaves before the drain loop: for an
\* INVALID signal time (line 127) and while fences are ignored (line 132)
EarlyResult(signalTime, ignoring) == "true"

\* lastCall.arg2 is the signal time the call read (0 for a null fence)
addPresentFence(fence, signalTime) ==
    /\ ~aborted
    /\ signalTime \in SignalTimeReads(fence)
    /\ LET kept == DrainKeep(mUnfiredFences, fenceTime)
           forwarded == DrainForward(mUnfiredFences, fenceTime)
           entry == Len(mUnfiredFences)
       IN
       IF fence = NullFence THEN
            /\ lastCall' = Call("addPresentFence", fence, 0, entry,
                                "false", FALSE, <<>>)
            /\ UNCHANGED mUnfiredFences
       ELSE IF signalTime = SIGNAL_TIME_INVALID \/ mIgnorePresentFences THEN
            /\ lastCall' = Call("addPresentFence", fence, signalTime, entry,
                                EarlyResult(signalTime, mIgnorePresentFences),
                                FALSE, <<>>)
            /\ UNCHANGED mUnfiredFences
       ELSE IF signalTime = SIGNAL_TIME_PENDING THEN
            /\ mUnfiredFences' = PushPending(kept, fence, mPendingLimit)
            /\ lastCall' = Call("addPresentFence", fence, signalTime, entry,
                                Bool(mMoreSamplesNeeded), FALSE, forwarded)
       ELSE
            /\ mUnfiredFences' = kept
            /\ lastCall' = Call("addPresentFence", fence, signalTime, entry,
                                Bool(mMoreSamplesNeeded), FALSE,
                                Append(forwarded, TrackerAdd(signalTime)))
    /\ UNCHANGED <<mPendingLimit, fenceTime, mIgnorePresentFences, transitionVars,
                   trackerPeriod, mCallbacks, aborted>>

setIgnorePresentFences(ignoration) ==
    /\ ~aborted
    /\ mIgnorePresentFences' = ignoration
    /\ mUnfiredFences' = IgnoreClear(mUnfiredFences, ignoration)
    /\ lastCall' = Call("setIgnorePresentFences", IF ignoration THEN 1 ELSE 0, 0,
                        Len(mUnfiredFences), "void", FALSE, <<>>)
    /\ UNCHANGED <<mPendingLimit, fenceTime, transitionVars, trackerPeriod,
                   mCallbacks, aborted>>

\* ----------------------------------------------------- period operations
CurrentTransition ==
    Transition(mPeriodTransitioningTo, mLastHwVsync, mMoreSamplesNeeded)

SetTransition(t) ==
    /\ mPeriodTransitioningTo' = t.to
    /\ mLastHwVsync' = t.hw
    /\ mMoreSamplesNeeded' = t.more

setPeriod(period) ==
    /\ ~aborted
    /\ SetTransition(SetPeriodTransition(CurrentTransition, period, trackerPeriod))
    /\ lastCall' = Call("setPeriod", period, 0,
                        IF HasValue(mPeriodTransitioningTo) THEN 1 ELSE 0, "void", FALSE, <<>>)
    /\ UNCHANGED <<mPendingLimit, fenceTime, fenceVars, trackerPeriod,
                   mCallbacks, aborted>>

\* mutation of PropagatePeriod: stopped Repeaters are skipped
PropagateRunningOnly(callbacks, period) ==
    [cb \in DOMAIN callbacks |->
        IF callbacks[cb].mStopped THEN callbacks[cb]
        ELSE RepeaterSetPeriod(callbacks[cb], period)]

\* every Repeater of the registry is given the period
PropagatePeriod(callbacks, period) ==
    [cb \in DOMAIN callbacks |-> RepeaterSetPeriod(callbacks[cb], period)]

\* lastCall.pre of addResyncSample: 1 when no anchor sample is held
NoAnchor == IF HasValue(mLastHwVsync) THEN 0 ELSE 1

addResyncSample(timestamp) ==
    /\ ~aborted
    /\ IF periodChangeDetected(timestamp, mLastHwVsync, mPeriodTransitioningTo,
                               trackerPeriod) THEN
            /\ trackerPeriod' = Value(mPeriodTransitioningTo)
            /\ mCallbacks' = PropagatePeriod(mCallbacks, Value(mPeriodTransitioningTo))
            /\ SetTransition(endPeriodTransition(CurrentTransition))
            /\ lastCall' = Call("addResyncSample", timestamp, 0, NoAnchor,
                                Bool(mMoreSamplesNeeded'), TRUE,
                                <<TrackerSet(Value(mPeriodTransitioningTo)),
                                  TrackerAdd(timestamp)>>)
       ELSE IF HasValue(mPeriodTransitioningTo) THEN
            /\ SetTransition([CurrentTransition EXCEPT !.hw = <<timestamp>>,
                                                       !.more = TRUE])
            /\ lastCall' = Call("addResyncSample", timestamp, 0, NoAnchor,
                                Bool(mMoreSamplesNeeded'), FALSE,
                                <<TrackerAdd(timestamp)>>)
            /\ UNCHANGED <<trackerPeriod, mCallbacks>>
       ELSE
            /\ SetTransition([CurrentTransition EXCEPT !.more = FALSE])
            /\ lastCall' = Call("addResyncSample", timestamp, 0, NoAnchor,
                                Bool(mMoreSamplesNeeded'), FALSE,
                                <<TrackerAdd(timestamp)>>)
            /\ UNCHANGED <<trackerPeriod, mCallbacks>>
    /\ UNCHANGED <<mPendingLimit, fenceTime, fenceVars, aborted>>

\* --------------------------------------------------- listener operations
\* mutation of RegistryFull: the cap is off by one
RegistryFullAbove(callbacks) == Cardinality(DOMAIN callbacks) > maxListeners

\* the registry refuses a new identity at the cap
RegistryFull(callbacks) == Cardinality(DOMAIN callbacks) >= maxListeners

\* mCallbacks.emplace(callback, repeater)
Emplace(callbacks, callback, repeater) ==
    [cb \in DOMAIN callbacks \cup {callback} |->
        IF cb = callback THEN repeater ELSE callbacks[cb]]

\* mutation of AddedListener: an existing Repeater is not restarted
AddRestartsOnlyNew(callbacks, callback, phase, now, period) ==
    IF callback \in DOMAIN callbacks THEN callbacks
    ELSE Emplace(callbacks, callback,
                 RepeaterStart(NewRepeater(period, phase, now), phase))

\* the registry after a successful addEventListener
AddedListener(callbacks, callback, phase, now, period) ==
    LET found == IF callback \in DOMAIN callbacks THEN callbacks
                 ELSE Emplace(callbacks, callback, NewRepeater(period, phase, now))
    IN [found EXCEPT ![callback] = RepeaterStart(found[callback], phase)]

addEventListener(callback, phase, now) ==
    /\ ~aborted
    /\ IF callback \notin DOMAIN mCallbacks /\ RegistryFull(mCallbacks) THEN
            /\ lastCall' = Call("addEventListener", callback, phase,
                                Cardinality(DOMAIN mCallbacks), "NO_MEMORY",
                                FALSE, <<>>)
            /\ UNCHANGED mCallbacks
       ELSE
            /\ mCallbacks' = AddedListener(mCallbacks, callback, phase, now,
                                           trackerPeriod)
            /\ lastCall' = CallAt("addEventListener", callback, phase,
                                  Cardinality(DOMAIN mCallbacks), "NO_ERROR",
                                  FALSE, <<>>,
                                  IF callback \in DOMAIN mCallbacks THEN 0 ELSE now)
    /\ UNCHANGED <<mPendingLimit, fenceTime, fenceVars, transitionVars,
                   trackerPeriod, aborted>>

\* mutation of StopFatal: stop() does not check mStopped
StopFatalUnregisteredOnly(callbacks, callback) == callback \notin DOMAIN callbacks

\* LOG_ALWAYS_FATAL_IF of removeEventListener and of CallbackRepeater::stop
StopFatal(callbacks, callback) ==
    \/ callback \notin DOMAIN callbacks
    \/ callbacks[callback].mStopped

removeEventListener(callback) ==
    /\ ~aborted
    /\ IF StopFatal(mCallbacks, callback) THEN
            /\ aborted' = TRUE
            /\ lastCall' = Call("removeEventListener", callback, 0, 0, "FATAL",
                                FALSE, <<>>)
            /\ UNCHANGED mCallbacks
       ELSE
            /\ mCallbacks' = [mCallbacks EXCEPT
                                ![callback] = RepeaterStop(mCallbacks[callback])]
            /\ lastCall' = Call("removeEventListener", callback, 0, 0, "NO_ERROR",
                                FALSE, <<>>)
            /\ UNCHANGED aborted
    /\ UNCHANGED <<mPendingLimit, fenceTime, fenceVars, transitionVars,
                   trackerPeriod>>

\* LOG_ALWAYS_FATAL_IF of changePhaseOffset
PhaseFatal(callbacks, callback) == callback \notin DOMAIN callbacks

changePhaseOffset(callback, phase) ==
    /\ ~aborted
    /\ IF PhaseFatal(mCallbacks, callback) THEN
            /\ aborted' = TRUE
            /\ lastCall' = Call("changePhaseOffset", callback, phase, 0, "FATAL",
                                FALSE, <<>>)
            /\ UNCHANGED mCallbacks
       ELSE
            /\ mCallbacks' = [mCallbacks EXCEPT
                                ![callback] = RepeaterStart(mCallbacks[callback], phase)]
            /\ lastCall' = Call("changePhaseOffset", callback, phase, 0, "NO_ERROR",
                                FALSE, <<>>)
            /\ UNCHANGED aborted
    /\ UNCHANGED <<mPendingLimit, fenceTime, fenceVars, transitionVars,
                   trackerPeriod>>

\* --------------------------------------- CallbackRepeater::callback, in steps
\* The dispatcher fires the registration; the callback records the anchor.
CallbackBegin(callback, vsynctime) ==
    /\ ~aborted
    /\ callback \in DOMAIN mCallbacks
    /\ LET r == mCallbacks[callback] IN
        /\ r.pc = "idle"
        /\ HasValue(r.scheduled)
        /\ vsynctime >= Value(r.scheduled).earliestVsync
        /\ mCallbacks' = [mCallbacks EXCEPT ![callback] =
                [r EXCEPT !.scheduled = <<>>, !.mLastCallTime = vsynctime,
                          !.pc = "begun", !.vsynctime = vsynctime,
                          !.wakeupTime = vsynctime - Value(r.scheduled).workload]]
    /\ lastCall' = Call("callback", callback, vsynctime, 0, "void", FALSE, <<>>)
    /\ UNCHANGED <<mPendingLimit, fenceTime, fenceVars, transitionVars,
                   trackerPeriod, aborted>>

\* mCallback->onDispSyncEvent(wakeupTime), outside the Repeater's lock
CallbackInvoke(callback) ==
    /\ ~aborted
    /\ callback \in DOMAIN mCallbacks
    /\ mCallbacks[callback].pc = "begun"
    /\ mCallbacks' = [mCallbacks EXCEPT ![callback].pc = "invoked"]
    /\ lastCall' = Call("onDispSyncEvent", callback,
                        mCallbacks[callback].wakeupTime, 0, "void", FALSE, <<>>)
    /\ UNCHANGED <<mPendingLimit, fenceTime, fenceVars, transitionVars,
                   trackerPeriod, aborted>>

\* mutation of Rescheduled: the callback returns without scheduling
RescheduledNothing(r) ==
    [r EXCEPT !.scheduled = <<>>, !.pc = "idle", !.vsynctime = 0,
              !.wakeupTime = 0]

\* mutation of Rescheduled: a stopped Repeater is not scheduled again
RescheduledUnlessStopped(r) ==
    [r EXCEPT !.scheduled = IF r.mStopped THEN <<>>
                            ELSE Scheduled(calculateWorkload(r.mPeriod, r.mOffset),
                                           r.vsynctime),
              !.pc = "idle", !.vsynctime = 0, !.wakeupTime = 0]

\* the reschedule at the end of the callback
Rescheduled(r) ==
    [r EXCEPT !.scheduled = Scheduled(calculateWorkload(r.mPeriod, r.mOffset),
                                      r.vsynctime),
              !.pc = "idle", !.vsynctime = 0, !.wakeupTime = 0]

CallbackReschedule(callback) ==
    /\ ~aborted
    /\ callback \in DOMAIN mCallbacks
    /\ mCallbacks[callback].pc = "invoked"
    /\ mCallbacks' = [mCallbacks EXCEPT ![callback] = Rescheduled(mCallbacks[callback])]
    /\ lastCall' = Call("reschedule", callback, 0, 0, "void", FALSE, <<>>)
    /\ UNCHANGED <<mPendingLimit, fenceTime, fenceVars, transitionVars,
                   trackerPeriod, aborted>>

\* ------------------------------------------------------- specifications
\* the whole Reactor
Next ==
    \/ \E f \in Fences, v \in FenceTimes \cup {SIGNAL_TIME_INVALID} : SignalFence(f, v)
    \/ \E f \in Fences \cup {NullFence},
          st \in FenceTimes \cup {SIGNAL_TIME_INVALID, SIGNAL_TIME_PENDING} :
            addPresentFence(f, st)
    \/ \E b \in BOOLEAN : setIgnorePresentFences(b)
    \/ \E p \in Periods : setPeriod(p)
    \/ \E t \in Times : addResyncSample(t)
    \/ \E cb \in Listeners, ph \in Phases, now \in Nows : addEventListener(cb, ph, now)
    \/ \E cb \in Listeners : removeEventListener(cb)
    \/ \E cb \in Listeners, ph \in Phases : changePhaseOffset(cb, ph)
    \/ \E cb \in Listeners, t \in Nows : CallbackBegin(cb, t)
    \/ \E cb \in Listeners : CallbackInvoke(cb)
    \/ \E cb \in Listeners : CallbackReschedule(cb)

Spec == Init /\ [][Next]_vars

\* the fence backlog, with the period requests that set the returned hint
InitFences == Init /\ trackerPeriod = 1

NextFences ==
    \/ \E f \in Fences, v \in FenceTimes \cup {SIGNAL_TIME_INVALID} : SignalFence(f, v)
    \/ \E f \in Fences \cup {NullFence},
          st \in FenceTimes \cup {SIGNAL_TIME_INVALID, SIGNAL_TIME_PENDING} :
            addPresentFence(f, st)
    \/ \E b \in BOOLEAN : setIgnorePresentFences(b)
    \/ \E p \in Periods : setPeriod(p)

SpecFences == InitFences /\ [][NextFences]_vars

\* the listener registry: every identity, no period change
InitListeners == Init /\ mPendingLimit = 1

NextListeners ==
    \/ \E cb \in Listeners, ph \in Phases, now \in Nows : addEventListener(cb, ph, now)
    \/ \E cb \in Listeners : removeEventListener(cb)
    \/ \E cb \in Listeners, ph \in Phases : changePhaseOffset(cb, ph)

SpecListeners == InitListeners /\ [][NextListeners]_vars

\* the period transition, with the listeners it propagates to
NextPeriod ==
    \/ \E p \in Periods : setPeriod(p)
    \/ \E t \in Times : addResyncSample(t)
    \/ \E cb \in PeriodListeners, ph \in Phases, now \in Nows :
            addEventListener(cb, ph, now)
    \/ \E cb \in PeriodListeners : removeEventListener(cb)
    \/ \E cb \in PeriodListeners, ph \in Phases : changePhaseOffset(cb, ph)

SpecPeriod == InitListeners /\ [][NextPeriod]_vars

\* the Repeater's firing cycle against the registry and the period transition
NextRepeater ==
    \/ \E p \in Periods : setPeriod(p)
    \/ \E t \in {0, MaxTime} : addResyncSample(t)
    \/ \E cb \in FiringListeners, ph \in Phases, now \in Nows :
            addEventListener(cb, ph, now)
    \/ \E cb \in FiringListeners : removeEventListener(cb)
    \/ \E cb \in FiringListeners, ph \in Phases : changePhaseOffset(cb, ph)
    \/ \E cb \in FiringListeners, t \in Nows : CallbackBegin(cb, t)
    \/ \E cb \in FiringListeners : CallbackInvoke(cb)
    \/ \E cb \in FiringListeners : CallbackReschedule(cb)

SpecRepeater == InitListeners /\ [][NextRepeater]_vars

\* the firing cycle under a dispatcher that fires every scheduled wakeup and
\* threads that run on: a firing that can begin does begin, and a callback
\* that has begun goes on to invoke the listener and to reschedule
FairFiring ==
    \A cb \in FiringListeners :
        /\ WF_vars(\E t \in Nows : CallbackBegin(cb, t))
        /\ WF_vars(CallbackInvoke(cb))
        /\ WF_vars(CallbackReschedule(cb))

SpecFiring == InitListeners /\ [][NextRepeater]_vars /\ FairFiring

\* ================================================================ claims
\* what a step of one operation looks like: every action names itself in
\* lastCall, so lastCall' tells which operation the step was
IsStep(op) == lastCall'.op = op

\* C1: the number of fences held in the backlog never exceeds pendingFenceLimit,
\* whatever sequence of addPresentFence and setIgnorePresentFences calls (and of
\* fences settling or turning invalid) has run.
C1_BacklogWithinLimit == Len(mUnfiredFences) <= mPendingLimit

\* C1 witness: an addPresentFence call that found the backlog full has
\* returned, and the backlog is still exactly at the largest limit.
C1_Witness ==
    /\ lastCall.op = "addPresentFence"
    /\ lastCall.pre = mPendingLimit
    /\ mPendingLimit = MaxPendingLimit
    /\ Len(mUnfiredFences) = mPendingLimit
    /\ \A i \in 1..Len(mUnfiredFences) :
            fenceTime[mUnfiredFences[i]] = SIGNAL_TIME_PENDING

\* C2: when addPresentFence is given a fence that answers PENDING and the backlog, once its
\* settled and invalid entries are drained, is at capacity, the backlog becomes
\* the drained backlog without its oldest entry, followed by the new fence:
\* one eviction, from the head, the order of the others kept.
C2_EvictsOldest ==
    [][(/\ IsStep("addPresentFence")
        /\ lastCall'.arg # NullFence
        /\ ~mIgnorePresentFences
        /\ lastCall'.arg2 = SIGNAL_TIME_PENDING
        /\ LET StillPending(f) == fenceTime[f] = SIGNAL_TIME_PENDING
           IN Len(SelectSeq(mUnfiredFences, StillPending)) = mPendingLimit)
       => LET StillPending(f) == fenceTime[f] = SIGNAL_TIME_PENDING
              drained == SelectSeq(mUnfiredFences, StillPending)
          IN mUnfiredFences' = Append(Tail(drained), lastCall'.arg)]_vars

\* C2 witness: the scenario of the claim. The limit is 2, no fence has ever
\* settled, fence 3 was handed in while the backlog held two fences, and the
\* backlog is <<2, 3>>.
C2_Witness ==
    /\ mPendingLimit = 2
    /\ \A f \in Fences : fenceTime[f] = SIGNAL_TIME_PENDING
    /\ lastCall.op = "addPresentFence"
    /\ lastCall.arg = 3
    /\ lastCall.pre = 2
    /\ mUnfiredFences = <<2, 3>>

\* C10: setIgnorePresentFences(true) leaves the backlog empty, and the backlog
\* stays empty for as long as the switch is on; an addPresentFence call made
\* while the switch is on changes nothing in the backlog and calls the tracker
\* not at all; setIgnorePresentFences(false) leaves the backlog as it was.
C10_IgnoreClearsAndBlocks ==
    /\ [](mIgnorePresentFences => mUnfiredFences = <<>>)
    /\ [][/\ (IsStep("setIgnorePresentFences") /\ lastCall'.arg = 1)
                => mUnfiredFences' = <<>>
          /\ (IsStep("setIgnorePresentFences") /\ lastCall'.arg = 0)
                => mUnfiredFences' = mUnfiredFences
          /\ (IsStep("addPresentFence") /\ mIgnorePresentFences)
                => /\ mUnfiredFences' = mUnfiredFences
                   /\ lastCall'.tracker = <<>>]_vars

\* C10 witness: setIgnorePresentFences(true) has run on a backlog that held
\* fences, and the backlog is empty.
C10_Witness ==
    /\ lastCall.op = "setIgnorePresentFences"
    /\ lastCall.arg = 1
    /\ lastCall.pre > 0
    /\ mIgnorePresentFences
    /\ mUnfiredFences = <<>>

\* C3: the tie-break law. When addResyncSample(t) finds a transition in flight
\* to P_new and an anchor A, with the tracker at P_old, it commits (reports
\* periodFlushed and moves the tracker to P_new) exactly if
\* |(t-A) - P_new| < |(t-A) - P_old|; if not, the target stays as it was, the
\* anchor becomes t, the call wants more samples and reports no flush.
C3_TieBreakLaw ==
    [][(/\ IsStep("addResyncSample")
        /\ HasValue(mPeriodTransitioningTo)
        /\ HasValue(mLastHwVsync))
       => LET t == lastCall'.arg
              A == Value(mLastHwVsync)
              P_new == Value(mPeriodTransitioningTo)
              P_old == trackerPeriod
              closer == Abs((t - A) - P_new) < Abs((t - A) - P_old)
          IN /\ lastCall'.flushed <=> closer
             /\ closer => trackerPeriod' = P_new
             /\ ~closer => /\ mPeriodTransitioningTo' = mPeriodTransitioningTo
                           /\ trackerPeriod' = P_old
                           /\ mLastHwVsync' = <<t>>
                           /\ lastCall'.ret = "true"
                           /\ lastCall'.flushed = FALSE]_vars

\* C3 witness: a resync sample has committed a transition.
C3_Witness ==
    /\ lastCall.op = "addResyncSample"
    /\ lastCall.flushed = TRUE
    /\ trackerPeriod = 3
    /\ lastCall.arg = MaxTime

\* C4: the addResyncSample call that commits a transition sets the tracker's
\* period to the target, sets the stored period of every Repeater of the
\* registry (running or stopped) to the target and changes nothing else in
\* them, clears periodTransitioningTo, lastHwVsync and moreSamplesNeeded,
\* reports periodFlushed = true, returns false, and hands the sample to the
\* tracker after it has set the tracker's period.
C4_CommitEffects ==
    [][(IsStep("addResyncSample") /\ lastCall'.flushed)
       => /\ HasValue(mPeriodTransitioningTo)
          /\ LET target == Value(mPeriodTransitioningTo) IN
             /\ trackerPeriod' = target
             /\ DOMAIN mCallbacks' = DOMAIN mCallbacks
             /\ \A cb \in DOMAIN mCallbacks :
                    mCallbacks'[cb] = [mCallbacks[cb] EXCEPT !.mPeriod = target]
             /\ lastCall'.tracker = <<TrackerSet(target), TrackerAdd(lastCall'.arg)>>
          /\ mPeriodTransitioningTo' = <<>>
          /\ mLastHwVsync' = <<>>
          /\ mMoreSamplesNeeded' = FALSE
          /\ lastCall'.ret = "false"]_vars

\* C4 witness: a commit has happened with a running and a stopped Repeater in
\* the registry, and both hold the committed period.
C4_Witness ==
    /\ lastCall.op = "addResyncSample"
    /\ lastCall.flushed = TRUE
    /\ \E a, b \in DOMAIN mCallbacks :
            /\ mCallbacks[a].mStopped
            /\ ~mCallbacks[b].mStopped
            /\ mCallbacks[a].mPeriod = trackerPeriod
            /\ mCallbacks[b].mPeriod = trackerPeriod
            /\ Value(mCallbacks[b].scheduled).workload
                    # calculateWorkload(trackerPeriod, mCallbacks[b].mOffset)

\* C9: setPeriod(x) with x the tracker's current period leaves no transition in
\* flight (no target, no anchor, no more samples wanted), whether or not one
\* was in flight, and changes neither the tracker's period nor any Repeater.
C9_SetSamePeriod ==
    [][(IsStep("setPeriod") /\ lastCall'.arg = trackerPeriod)
       => /\ mPeriodTransitioningTo' = <<>>
          /\ mLastHwVsync' = <<>>
          /\ mMoreSamplesNeeded' = FALSE
          /\ trackerPeriod' = trackerPeriod
          /\ mCallbacks' = mCallbacks]_vars

\* C9 witness: setPeriod with the current period has run while a transition
\* was in flight and a Repeater was registered.
C9_Witness ==
    /\ lastCall.op = "setPeriod"
    /\ lastCall.arg = trackerPeriod
    /\ lastCall.pre = 1
    /\ mPeriodTransitioningTo = <<>>
    /\ DOMAIN mCallbacks # {}

\* C5: addEventListener for an identity that is not in the registry, with
\* three identities in it, returns NO_MEMORY and changes nothing: the registry
\* and every Repeater in it are as before.
C5_FourthListenerRefused ==
    [][(/\ IsStep("addEventListener")
        /\ lastCall'.arg \notin DOMAIN mCallbacks
        /\ Cardinality(DOMAIN mCallbacks) = 3)
       => /\ lastCall'.ret = "NO_MEMORY"
          /\ mCallbacks' = mCallbacks
          /\ UNCHANGED <<mPendingLimit, fenceTime, fenceVars, transitionVars,
                         trackerPeriod, aborted>>]_vars

\* C5 witness: a fourth identity has been refused while the registry held a
\* running and a stopped Repeater.
C5_Witness ==
    /\ lastCall.op = "addEventListener"
    /\ lastCall.ret = "NO_MEMORY"
    /\ lastCall.arg \notin DOMAIN mCallbacks
    /\ Cardinality(DOMAIN mCallbacks) = 3
    /\ \E a, b \in DOMAIN mCallbacks :
            mCallbacks[a].mStopped /\ ~mCallbacks[b].mStopped

\* C6: the cap counts the listeners that are not removed: addEventListener for
\* an identity that is not in the registry succeeds whenever fewer than three
\* of the registered listeners are still running, so a refused identity is
\* accepted once one of the three has been removed.
C6_RetryAfterRemoveSucceeds ==
    [][(/\ IsStep("addEventListener")
        /\ lastCall'.arg \notin DOMAIN mCallbacks
        /\ Cardinality({cb \in DOMAIN mCallbacks : ~mCallbacks[cb].mStopped}) < 3)
       => lastCall'.ret = "NO_ERROR"]_vars

\* C7: the registry never holds more than three Repeaters (one per identity:
\* it is a map); addEventListener for an identity already in it, also at the
\* cap, returns NO_ERROR, adds nothing, leaves the other Repeaters alone, and
\* restarts the existing one: running, phase as given, scheduled with the
\* workload of that phase from its last call time.
C7_OneRepeaterPerIdentity ==
    /\ [](Cardinality(DOMAIN mCallbacks) <= 3 /\ DOMAIN mCallbacks \subseteq Listeners)
    /\ [][(IsStep("addEventListener") /\ lastCall'.arg \in DOMAIN mCallbacks)
          => LET cb == lastCall'.arg
                 old == mCallbacks[cb]
                 new == mCallbacks'[cb]
             IN /\ lastCall'.ret = "NO_ERROR"
                /\ DOMAIN mCallbacks' = DOMAIN mCallbacks
                /\ \A other \in DOMAIN mCallbacks \ {cb} :
                        mCallbacks'[other] = mCallbacks[other]
                /\ new.mStopped = FALSE
                /\ new.mOffset = lastCall'.arg2
                /\ new.mPeriod = old.mPeriod
                /\ new.mLastCallTime = old.mLastCallTime
                /\ new.scheduled = Scheduled(old.mPeriod - lastCall'.arg2,
                                             old.mLastCallTime)]_vars

\* C7 witness: addEventListener has succeeded on a registry that already held
\* three identities, for one of them, and changed its phase.
C7_Witness ==
    /\ lastCall.op = "addEventListener"
    /\ lastCall.pre = 3
    /\ lastCall.ret = "NO_ERROR"
    /\ Cardinality(DOMAIN mCallbacks) = 3
    /\ lastCall.arg2 = 1
    /\ \E a \in DOMAIN mCallbacks : mCallbacks[a].mStopped

\* C8: removeEventListener on an identity that is not registered or whose
\* Repeater is already stopped, and changePhaseOffset on an identity that is
\* not registered, abort: they never return NO_ERROR.
C8_MisuseIsFatal ==
    [][/\ (/\ IsStep("removeEventListener")
           /\ \/ lastCall'.arg \notin DOMAIN mCallbacks
              \/ mCallbacks[lastCall'.arg].mStopped)
            => (aborted' /\ lastCall'.ret = "FATAL")
       /\ (IsStep("changePhaseOffset") /\ lastCall'.arg \notin DOMAIN mCallbacks)
            => (aborted' /\ lastCall'.ret = "FATAL")]_vars

\* C8 witness: a second removeEventListener on a registered, stopped
\* Repeater has aborted.
C8_Witness ==
    /\ aborted
    /\ lastCall.op = "removeEventListener"
    /\ lastCall.ret = "FATAL"
    /\ lastCall.arg \in DOMAIN mCallbacks
    /\ mCallbacks[lastCall.arg].mStopped

\* C11 as stated: while fences are ignored, addPresentFence with a non-null
\* fence returns false ("no more samples needed").
C11_IgnoredReturnsFalse ==
    [][(/\ IsStep("addPresentFence")
        /\ lastCall'.arg # NullFence
        /\ mIgnorePresentFences)
       => lastCall'.ret = "false"]_vars

\* C11 amended: while fences are ignored, addPresentFence with a non-null
\* fence returns true ("more samples needed"), whatever the fence's state and
\* whether or not a period transition is in flight.
C11_IgnoredReturnsTrue ==
    [][(/\ IsStep("addPresentFence")
        /\ lastCall'.arg # NullFence
        /\ mIgnorePresentFences)
       => lastCall'.ret = "true"]_vars

\* C11 witness: a settled fence was handed in while fences were ignored and
\* no transition was in flight, so the result is not the stored hint.
C11_Witness ==
    /\ lastCall.op = "addPresentFence"
    /\ lastCall.arg # NullFence
    /\ lastCall.arg2 \in FenceTimes
    /\ lastCall.ret = "true"
    /\ mIgnorePresentFences
    /\ ~mMoreSamplesNeeded
    /\ mPeriodTransitioningTo = <<>>

\* the timestamps of the backlog's settled fences, in backlog order
SettledBacklogTimes ==
    LET Settled(f) == fenceTime[f] \in FenceTimes
        settled == SelectSeq(mUnfiredFences, Settled)
    IN [i \in 1..Len(settled) |-> TrackerAdd(fenceTime[settled[i]])]

\* C12 as stated: a call whose fence reports PENDING forwards no timestamp
\* to the tracker, whatever the backlog holds.
C12_PendingForwardsNothing ==
    [][(/\ IsStep("addPresentFence")
        /\ lastCall'.arg # NullFence
        /\ lastCall'.arg2 = SIGNAL_TIME_PENDING)
       => lastCall'.tracker = <<>>]_vars

\* C12 amended: a call whose fence reports PENDING forwards nothing for the
\* fence it was given; what reaches the tracker during the call is exactly
\* the timestamps of the backlog fences that have settled, in backlog order
\* (nothing at all while fences are ignored).
C12_PendingForwardsOnlyBacklog ==
    [][(/\ IsStep("addPresentFence")
        /\ lastCall'.arg # NullFence
        /\ lastCall'.arg2 = SIGNAL_TIME_PENDING)
       => lastCall'.tracker =
              IF mIgnorePresentFences THEN <<>> ELSE SettledBacklogTimes]_vars

\* C12 witness: a PENDING fence was handed in while a backlog fence had
\* settled, and that backlog fence's timestamp went to the tracker.
C12_Witness ==
    /\ lastCall.op = "addPresentFence"
    /\ lastCall.arg2 = SIGNAL_TIME_PENDING
    /\ fenceTime[lastCall.arg] = SIGNAL_TIME_PENDING
    /\ Len(lastCall.tracker) = 1
    /\ lastCall.pre = 1
    /\ mUnfiredFences = <<lastCall.arg>>

TransitionCleared ==
    /\ mPeriodTransitioningTo = <<>>
    /\ mLastHwVsync = <<>>
    /\ ~mMoreSamplesNeeded

\* C18: between operations an anchor sample is held only while a transition
\* is in flight, and once a transition has committed (addResyncSample with
\* periodFlushed) or been aborted (setPeriod with the current period) the
\* target, the anchor and the hint are all clear.
C18_TransitionConsistent ==
    /\ HasValue(mLastHwVsync) => HasValue(mPeriodTransitioningTo)
    /\ (lastCall.op = "addResyncSample" /\ lastCall.flushed) => TransitionCleared
    /\ (lastCall.op = "setPeriod" /\ lastCall.arg = trackerPeriod)
            => TransitionCleared

\* C18 witness: a transition that held an anchor sample has just committed
\* to the period 1 and the three fields are clear.
C18_Witness ==
    /\ lastCall.op = "addResyncSample"
    /\ lastCall.flushed
    /\ lastCall.pre = 0
    /\ trackerPeriod = 1
    /\ TransitionCleared

\* C20: setPeriod always leaves the Reactor without an anchor sample, nothing
\* but addResyncSample records one, and an addResyncSample that finds no
\* anchor never commits: periodFlushed is false, the tracker's and the
\* Repeaters' period are unchanged, and with a transition in flight the
\* sample is recorded as the anchor and the call returns true.
C20_FirstSampleNeverCommits ==
    /\ [](lastCall.op = "setPeriod" => mLastHwVsync = <<>>)
    /\ [][(mLastHwVsync = <<>> /\ mLastHwVsync' # <<>>)
            => IsStep("addResyncSample")]_vars
    /\ [][(IsStep("addResyncSample") /\ mLastHwVsync = <<>>)
            => /\ ~lastCall'.flushed
               /\ trackerPeriod' = trackerPeriod
               /\ mCallbacks' = mCallbacks
               /\ \A i \in 1..Len(lastCall'.tracker) :
                        lastCall'.tracker[i].call # "setPeriod"
               /\ HasValue(mPeriodTransitioningTo)
                    => /\ lastCall'.ret = "true"
                       /\ mLastHwVsync' = <<lastCall'.arg>>
                       /\ mPeriodTransitioningTo' = mPeriodTransitioningTo]_vars

\* C20 witness: a sample found no anchor while a transition from period 1 to
\* period 3 was in flight and listeners were registered: it became the
\* anchor, the call returned true and nothing was flushed.
C20_Witness ==
    /\ lastCall.op = "addResyncSample"
    /\ lastCall.pre = 1
    /\ lastCall.arg = MaxTime
    /\ ~lastCall.flushed
    /\ lastCall.ret = "true"
    /\ mLastHwVsync = <<MaxTime>>
    /\ mPeriodTransitioningTo = <<3>>
    /\ trackerPeriod = 1
    /\ DOMAIN mCallbacks # {}

\* a Repeater that is stopped, holds no scheduled wakeup and is not firing
CleanlyStopped(cb) ==
    /\ cb \in DOMAIN mCallbacks
    /\ mCallbacks[cb].mStopped
    /\ mCallbacks[cb].scheduled = <<>>
    /\ mCallbacks[cb].pc = "idle"

\* a step of one of the operations that call start() on the Repeater of cb
Restarts(cb) ==
    /\ IsStep("addEventListener") \/ IsStep("changePhaseOffset")
    /\ lastCall'.arg = cb

\* a step of the firing of the Repeater of cb
Fires(cb) ==
    /\ lastCall'.op \in {"callback", "onDispSyncEvent", "reschedule"}
    /\ lastCall'.arg = cb

\* C14: a removeEventListener that finds no firing of the Repeater in
\* progress leaves it stopped, without a scheduled wakeup and not firing; and
\* from there, until addEventListener or changePhaseOffset restarts it, it
\* stays so and its listener is not invoked.
C14_StopCancels ==
    /\ [][\A cb \in Listeners :
            (/\ IsStep("removeEventListener")
             /\ lastCall'.arg = cb
             /\ lastCall'.ret = "NO_ERROR"
             /\ mCallbacks[cb].pc = "idle")
            => CleanlyStopped(cb)']_vars
    /\ [][\A cb \in Listeners :
            (CleanlyStopped(cb) /\ ~Restarts(cb))
            => (CleanlyStopped(cb)' /\ ~Fires(cb))]_vars

\* C14 witness: a Repeater whose last call time is 1 was stopped by a
\* removeEventListener that found no firing in progress.
C14_Witness ==
    /\ lastCall.op = "removeEventListener"
    /\ lastCall.ret = "NO_ERROR"
    /\ CleanlyStopped(lastCall.arg)
    /\ mCallbacks[lastCall.arg].mLastCallTime = 1

\* C15: start(phaseOffset), reached from a successful addEventListener or
\* changePhaseOffset, leaves the Repeater running with one scheduled wakeup
\* whose workload is the stored period less phaseOffset (16 and 4 give 12)
\* and whose earliest vsync is the last recorded call time: the clock read
\* at registration for a Repeater made by this call, and a time that only a
\* firing replaces.
C15_StartSchedules ==
    /\ calculateWorkload(16, 4) = 12
    /\ [][\A cb \in Listeners :
            (Restarts(cb) /\ lastCall'.ret = "NO_ERROR")
            => LET existed == cb \in DOMAIN mCallbacks
                   period == IF existed THEN mCallbacks[cb].mPeriod
                             ELSE trackerPeriod
                   anchor == IF existed THEN mCallbacks[cb].mLastCallTime
                             ELSE lastCall'.now
                   new == mCallbacks'[cb]
               IN /\ new.scheduled = <<[workload |-> period - lastCall'.arg2,
                                        earliestVsync |-> anchor]>>
                  /\ ~new.mStopped
                  /\ new.mOffset = lastCall'.arg2
                  /\ new.mPeriod = period
                  /\ new.mLastCallTime = anchor]_vars
    /\ [][\A cb \in DOMAIN mCallbacks :
            mCallbacks'[cb].mLastCallTime # mCallbacks[cb].mLastCallTime
            => /\ IsStep("callback")
               /\ lastCall'.arg = cb
               /\ mCallbacks'[cb].mLastCallTime = lastCall'.arg2]_vars

\* C15 witness: a listener registered at clock time 1 with phase 1 while the
\* tracker's period was 3 holds a wakeup of workload 2, not before time 1.
C15_Witness ==
    /\ lastCall.op = "addEventListener"
    /\ lastCall.ret = "NO_ERROR"
    /\ lastCall.pre = 0
    /\ lastCall.now = 1
    /\ lastCall.arg2 = 1
    /\ trackerPeriod = 3
    /\ mCallbacks[lastCall.arg].scheduled =
            <<[workload |-> 2, earliestVsync |-> 1]>>

\* C16: a stop() that finds a firing in progress does not interrupt it: the
\* firing keeps its place, the listener can still be invoked, the reschedule
\* still follows and schedules a wakeup whether or not the Repeater is
\* stopped, and the dispatcher can fire that wakeup; so a stopped Repeater
\* can hold a scheduled wakeup and fire again (the witness).
C16_StopDoesNotInterruptFiring ==
    /\ [][\A cb \in Listeners :
            (/\ IsStep("removeEventListener")
             /\ lastCall'.arg = cb
             /\ lastCall'.ret = "NO_ERROR"
             /\ mCallbacks[cb].pc # "idle")
            => /\ mCallbacks'[cb].mStopped
               /\ mCallbacks'[cb].pc = mCallbacks[cb].pc
               /\ mCallbacks'[cb].vsynctime = mCallbacks[cb].vsynctime]_vars
    /\ [][\A cb \in Listeners :
            (IsStep("reschedule") /\ lastCall'.arg = cb)
            => /\ mCallbacks'[cb].scheduled =
                    Scheduled(mCallbacks[cb].mPeriod - mCallbacks[cb].mOffset,
                              mCallbacks[cb].vsynctime)
               /\ mCallbacks'[cb].mStopped = mCallbacks[cb].mStopped]_vars
    /\ [](\A cb \in DOMAIN mCallbacks :
            ~aborted =>
               /\ mCallbacks[cb].pc = "begun" => ENABLED CallbackInvoke(cb)
               /\ mCallbacks[cb].pc = "invoked" => ENABLED CallbackReschedule(cb)
               /\ (mCallbacks[cb].pc = "idle" /\ HasValue(mCallbacks[cb].scheduled))
                    => ENABLED (\E t \in Nows : CallbackBegin(cb, t)))

\* C16 witness: the wakeup that a firing scheduled after stop() had run has
\* fired: a new firing of the stopped Repeater has begun.
C16_Witness ==
    /\ lastCall.op = "callback"
    /\ mCallbacks[lastCall.arg].mStopped
    /\ mCallbacks[lastCall.arg].pc = "begun"

\* C17: a Repeater's stored period changes only in a committing
\* addResyncSample, which changes nothing else of the Repeater (running flag,
\* phase, anchor, scheduled wakeup and firing position stay); a wakeup is
\* scheduled only by the reschedule of a firing or by start(), and its
\* workload is then the stored period less the phase offset.
C17_SetPeriodOnlyStores ==
    /\ [][\A cb \in DOMAIN mCallbacks :
            mCallbacks'[cb].mPeriod # mCallbacks[cb].mPeriod
            => /\ IsStep("addResyncSample")
               /\ lastCall'.flushed
               /\ mCallbacks'[cb] =
                    [mCallbacks[cb] EXCEPT !.mPeriod = trackerPeriod']]_vars
    /\ [][\A cb \in DOMAIN mCallbacks :
            (/\ mCallbacks'[cb].scheduled # mCallbacks[cb].scheduled
             /\ HasValue(mCallbacks'[cb].scheduled))
            => /\ (IsStep("reschedule") /\ lastCall'.arg = cb) \/ Restarts(cb)
               /\ Value(mCallbacks'[cb].scheduled).workload =
                    mCallbacks'[cb].mPeriod - mCallbacks'[cb].mOffset]_vars

\* C17 witness: a commit from period 1 to period 3 has left a running
\* Repeater, not firing, with the wakeup it had: workload 1 less its phase.
C17_Witness ==
    /\ lastCall.op = "addResyncSample"
    /\ lastCall.flushed
    /\ \E cb \in DOMAIN mCallbacks :
            /\ ~mCallbacks[cb].mStopped
            /\ mCallbacks[cb].pc = "idle"
            /\ mCallbacks[cb].mPeriod = 3
            /\ HasValue(mCallbacks[cb].scheduled)
            /\ Value(mCallbacks[cb].scheduled).workload = 1 - mCallbacks[cb].mOffset

\* the Repeater of cb is registered and running
Running(cb) ==
    cb \in DOMAIN mCallbacks /\ ~mCallbacks[cb].mStopped /\ ~aborted

\* the Repeater of cb has been stopped, or the process has aborted
Halted(cb) ==
    aborted \/ (cb \in DOMAIN mCallbacks /\ mCallbacks[cb].mStopped)

\* the listener of cb has just been invoked; a firing of cb has just begun
Invoked(cb) == cb \in DOMAIN mCallbacks /\ mCallbacks[cb].pc = "invoked"
Begun(cb) == cb \in DOMAIN mCallbacks /\ mCallbacks[cb].pc = "begun"

\* C19: a firing records its vsync time, invokes the listener once with the
\* wakeup time (the vsync time less the workload), and then reschedules with
\* the period less the phase, not before that vsync time; and under a
\* dispatcher that fires every scheduled wakeup, a running Repeater's
\* listener is invoked, and every invocation is followed by a further
\* firing, unless the Repeater is stopped (or the process aborted): a
\* Repeater that is started and never stopped is invoked again and again.
C19_FiresForever ==
    /\ [][\A cb \in Listeners :
            (IsStep("callback") /\ lastCall'.arg = cb)
            => /\ mCallbacks'[cb].mLastCallTime = lastCall'.arg2
               /\ mCallbacks'[cb].wakeupTime =
                    lastCall'.arg2 - Value(mCallbacks[cb].scheduled).workload
               /\ mCallbacks'[cb].scheduled = <<>>]_vars
    /\ [][\A cb \in Listeners :
            (IsStep("onDispSyncEvent") /\ lastCall'.arg = cb)
            => /\ mCallbacks[cb].pc = "begun"
               /\ mCallbacks'[cb].pc = "invoked"
               /\ lastCall'.arg2 = mCallbacks[cb].wakeupTime]_vars
    /\ [][\A cb \in Listeners :
            (IsStep("reschedule") /\ lastCall'.arg = cb)
            => /\ mCallbacks[cb].pc = "invoked"
               /\ mCallbacks'[cb].pc = "idle"
               /\ HasValue(mCallbacks'[cb].scheduled)
               /\ Value(mCallbacks'[cb].scheduled).earliestVsync =
                    mCallbacks[cb].mLastCallTime]_vars
    /\ \A cb \in FiringListeners :
            /\ [](Running(cb) => <>(Invoked(cb) \/ Halted(cb)))
            /\ [](Invoked(cb) => <>(Begun(cb) \/ Halted(cb)))

\* C19 witness: a firing at vsync time 1 of a running Repeater with period 3
\* and phase 0 has invoked the listener and rescheduled: a wakeup of
\* workload 3, not before time 1.
C19_Witness ==
    /\ lastCall.op = "reschedule"
    /\ Running(lastCall.arg)
    /\ mCallbacks[lastCall.arg].mLastCallTime = 1
    /\ mCallbacks[lastCall.arg].scheduled =
            <<[workload |-> 3, earliestVsync |-> 1]>>

====
